---- MODULE Spec2Model ----
(***************************************************************************)
(* Model of src/src/charm.py: CharmInventoryCollectorCharm.                *)
(*                                                                         *)
(* The charm reacts to install / upgrade-charm, config-changed,            *)
(* inventory-exporter relation-changed / relation-departed and to the      *)
(* "collect" action.  It renders the collector's YAML config from the      *)
(* charm config and the related units, runs the collector snap with        *)
(* --dry-run to decide the unit status, and runs it for real on the        *)
(* action.                                                                 *)
(*                                                                         *)
(* Text is modelled as sequences: the base64 text of juju_ca_cert is a     *)
(* sequence of one-character strings, decoded bytes and decoded text are   *)
(* sequences of numbers.  The YAML file is the sequence of the top-level   *)
(* sections that reached the disk, in the order safe_dump emits them.      *)
(***************************************************************************)
EXTENDS Integers, Sequences, FiniteSets, TLC

\* ------------------------------------------------------------------ bounds
\* Largest number of remote units, over all inventory-exporter relations,
\* that the environment relates to this unit at one time.
MaxUnits == 2

\* ------------------------------------------------------------ text helpers
None == "None"

RECURSIVE SumLen(_)
SumLen(ss) == IF ss = <<>> THEN 0 ELSE Len(Head(ss)) + SumLen(Tail(ss))

\* ------------------------------------------------- base64.b64decode(s)
\* The standard alphabet; a character's value is its position minus one.
B64Chars ==
    <<"A","B","C","D","E","F","G","H","I","J","K","L","M","N","O","P",
      "Q","R","S","T","U","V","W","X","Y","Z","a","b","c","d","e","f",
      "g","h","i","j","k","l","m","n","o","p","q","r","s","t","u","v",
      "w","x","y","z","0","1","2","3","4","5","6","7","8","9","+","/">>

IsB64Char(c) == \E i \in DOMAIN B64Chars : B64Chars[i] = c

B64Value(c) == (CHOOSE i \in DOMAIN B64Chars : B64Chars[i] = c) - 1

\* b64decode with its default validate=False: characters outside the
\* alphabet are skipped, a complete pad sequence ends the input, and data
\* that stops inside a quad raises binascii.Error.
\*   quad  position inside the current group of four characters
\*   left  bits of the previous character not yet emitted
\*   pads  '=' seen since the last data character (counted once quad >= 2)
RECURSIVE A2bBase64(_, _, _, _, _, _)
A2bBase64(s, i, quad, left, pads, out) ==
    IF i > Len(s)
    THEN IF quad # 0 THEN [ok |-> FALSE, bytes |-> <<>>]
                     ELSE [ok |-> TRUE, bytes |-> out]
    ELSE LET c == s[i] IN
         IF c = "="
         THEN IF quad >= 2 /\ quad + pads + 1 >= 4
              THEN [ok |-> TRUE, bytes |-> out]
              ELSE A2bBase64(s, i + 1, quad, left,
                             IF quad >= 2 THEN pads + 1 ELSE pads, out)
         ELSE IF ~IsB64Char(c)
         THEN A2bBase64(s, i + 1, quad, left, pads, out)
         ELSE LET v == B64Value(c) IN
              CASE quad = 0 -> A2bBase64(s, i + 1, 1, v, 0, out)
                [] quad = 1 -> A2bBase64(s, i + 1, 2, v % 16, 0,
                                         Append(out, left * 4 + v \div 16))
                [] quad = 2 -> A2bBase64(s, i + 1, 3, v % 4, 0,
                                         Append(out, left * 16 + v \div 4))
                [] quad = 3 -> A2bBase64(s, i + 1, 0, 0, 0,
                                         Append(out, left * 64 + v))

b64decode(s) == A2bBase64(s, 1, 0, 0, 0, <<>>)

\* ------------------------------------------------- bytes.decode("UTF-8")
IsCont(b) == b >= 128 /\ b <= 191

\* Strict UTF-8: the text is the sequence of code points, and an invalid
\* start byte, a missing or out-of-range continuation byte, an overlong
\* form or a surrogate raises UnicodeDecodeError.
RECURSIVE Utf8Decode(_, _, _)
Utf8Decode(b, i, out) ==
    LET n == Len(b)
        bad == [ok |-> FALSE, text |-> <<>>]
    IN
    IF i > n THEN [ok |-> TRUE, text |-> out]
    ELSE LET b0 == b[i] IN
         CASE b0 < 128 -> Utf8Decode(b, i + 1, Append(out, b0))
           [] b0 >= 194 /\ b0 <= 223 ->
                IF i + 1 <= n /\ IsCont(b[i + 1])
                THEN Utf8Decode(b, i + 2,
                                Append(out, (b0 - 192) * 64 + (b[i + 1] - 128)))
                ELSE bad
           [] b0 >= 224 /\ b0 <= 239 ->
                IF /\ i + 2 <= n
                   /\ IsCont(b[i + 1])
                   /\ IsCont(b[i + 2])
                   /\ (b0 = 224 => b[i + 1] >= 160)
                   /\ (b0 = 237 => b[i + 1] <= 159)
                THEN Utf8Decode(b, i + 3,
                                Append(out, (b0 - 224) * 4096 + (b[i + 1] - 128) * 64
                                            + (b[i + 2] - 128)))
                ELSE bad
           [] b0 >= 240 /\ b0 <= 244 ->
                IF /\ i + 3 <= n
                   /\ IsCont(b[i + 1])
                   /\ IsCont(b[i + 2])
                   /\ IsCont(b[i + 3])
                   /\ (b0 = 240 => b[i + 1] >= 144)
                   /\ (b0 = 244 => b[i + 1] <= 143)
                THEN Utf8Decode(b, i + 4,
                                Append(out, (b0 - 240) * 262144 + (b[i + 1] - 128) * 4096
                                            + (b[i + 2] - 128) * 64 + (b[i + 3] - 128)))
                ELSE bad
           [] OTHER -> bad

\* b64decode(self.config.get("juju_ca_cert")).decode("UTF-8")
DecodeCaCert(s) ==
    LET raw == b64decode(s) IN
    IF ~raw.ok THEN [ok |-> FALSE, text |-> <<>>] ELSE Utf8Decode(raw.bytes, 1, <<>>)

\* ------------------------------------------------------------ environment
\* Charm config as the operator may set it.  Only juju_ca_cert varies; the
\* other keys keep one value.
CertValid == <<"Q","0","V","S","V","A","=","=">>
CertStray == <<"Q","0","V","S","!","V","A","=","=">>
CertTruncated == <<"Q","0","V","S","V","A">>
CertNotText == <<"/","w","=","=">>

Certs == {CertValid, CertStray, CertTruncated, CertNotText}

Customers == {"acme"}

ConfigOf(customer, cert) ==
    [collection_path |-> "/data", customer |-> customer, site |-> "dc1",
     juju_endpoint |-> "10.0.0.1:17070", juju_username |-> "admin",
     juju_password |-> "x", juju_ca_cert |-> cert]

Configs == {ConfigOf(c, cert) : c \in Customers, cert \in Certs}

\* Relation data a remote unit may have published: everything, or nothing
\* yet.
UnitData ==
    {[address |-> "10.0.0.2", port |-> "9100", hostname |-> "h1", model |-> "m1"],
     [address |-> None, port |-> None, hostname |-> None, model |-> None]}

\* The collector snap as the unit finds it: not launchable, exiting 0, or
\* exiting non-zero.
CollectorStates == {"missing", "ok", "failing"}

\* Top-level keys of the rendered document in the order yaml.safe_dump
\* writes them (sort_keys defaults to True).
SectionKeys == <<"juju_controller", "settings", "targets">>
NumSections == Len(SectionKeys)

\* The directory of CONFIG_PATH: whether the file can be opened for writing,
\* and how many sections fit before the device is full.
DiskOk == [writable |-> TRUE, room |-> NumSections]
DiskDenied == [writable |-> FALSE, room |-> NumSections]
DiskFull == [writable |-> TRUE, room |-> 0]
DiskStates == {DiskOk, DiskDenied, DiskFull}

\* What model.resources.fetch("collector-snap") and os.path.getsize find.
ResourceOutcomes == {"absent", "empty", "present", "unreadable", "error"}
ResourcePath == "/resources/collector-snap"

\* What a handler does: _on_config_changed and
\* _on_inventory_exporter_relation_changed have the same body, "reconcile".
Handlers == {"install", "reconcile", "collect"}

NoFile == [exists |-> FALSE, data |-> <<>>]
NoSnapshot == [health |-> "Unset", file |-> NoFile, in_row |-> FALSE]

VARIABLES
    config,               \* self.config
    relations,            \* self.model.relations["inventory-exporter"]: per relation,
                          \* its units in the order relation.units yields them
    collector,            \* the collector executable
    disk,                 \* the file system holding CONFIG_PATH
    file,                 \* the file at CONFIG_PATH
    health,               \* self.unit.status
    snap_path,            \* self._snap_path
    is_snap_path_cached,  \* self._is_snap_path_cached
    pc,                   \* position of the running handler
    handler,              \* the handler that is running
    doc,                  \* render_config's local config, serialised
    calls,                \* run_collector calls of the running handler
    raised,               \* exception that ended the running handler
    response,             \* what the handler told the action's requester
    installed_via,        \* snap call made by _on_install
    before,               \* status and file when the handler started
    in_row,               \* the last thing that happened was a reconcile
    fetched,              \* what the resource lookup of the running handler found
    fresh                 \* the file is unmodified since a dry run exited zero

vars ==
    <<config, relations, collector, disk, file, health, snap_path,
      is_snap_path_cached, pc, handler, doc, calls, raised, response,
      installed_via, before, in_row, fetched, fresh>>

\* --------------------------------------------------------- render_config
\* The endpoint built without the separator.
EndpointWithoutColon(remote_data) == remote_data.address \o remote_data.port

\* endpoint = f"{remote_data.get('private-address')}:{remote_data.get('port')}"
Endpoint(remote_data) == remote_data.address \o ":" \o remote_data.port

TargetOf(remote_data, customer, site) ==
    [endpoint |-> Endpoint(remote_data), hostname |-> remote_data.hostname,
     customer |-> customer, site |-> site, model |-> remote_data.model]

\* The inner loop putting each target in front of the list where it should
\* append it.
RECURSIVE UnitTargetsNewestFirst(_, _, _)
UnitTargetsNewestFirst(units, customer, site) ==
    IF units = <<>> THEN <<>>
    ELSE UnitTargetsNewestFirst(Tail(units), customer, site)
             \o <<TargetOf(Head(units), customer, site)>>

\* for unit in relation.units: config["targets"].append({...})
RECURSIVE UnitTargets(_, _, _)
UnitTargets(units, customer, site) ==
    IF units = <<>> THEN <<>>
    ELSE <<TargetOf(Head(units), customer, site)>>
             \o UnitTargets(Tail(units), customer, site)

\* The outer loop assigning the relation's targets where it should extend
\* the list: only the last relation's units are left.
TargetsOfLastRelation(rels, customer, site) ==
    IF rels = <<>> THEN <<>>
    ELSE UnitTargets(rels[Len(rels)], customer, site)

\* for relation in self.model.relations.get("inventory-exporter"): ...
\* starting from the empty list.
RECURSIVE Targets(_, _, _)
Targets(rels, customer, site) ==
    IF rels = <<>> THEN <<>>
    ELSE UnitTargets(Head(rels), customer, site)
             \o Targets(Tail(rels), customer, site)

\* render_config starting from the targets the file holds where it should
\* start from the empty list.
SynthesizePatching(cfg, rels) ==
    LET ca_cert == DecodeCaCert(cfg.juju_ca_cert)
        held == IF file.exists /\ Len(file.data) = Len(SectionKeys)
                THEN file.data[3].value ELSE <<>>
    IN
    IF ~ca_cert.ok
    THEN [ok |-> FALSE, config |-> <<>>]
    ELSE [ok |-> TRUE,
          config |->
            [settings |-> [collection_path |-> cfg.collection_path,
                           customer |-> cfg.customer, site |-> cfg.site],
             juju_controller |-> [endpoint |-> cfg.juju_endpoint,
                                  username |-> cfg.juju_username,
                                  password |-> cfg.juju_password,
                                  ca_cert |-> ca_cert.text],
             targets |-> held \o Targets(rels, cfg.customer, cfg.site)]]

\* The config dictionary built by render_config, or the exception of the
\* certificate decoding, which comes before anything is written.
Synthesize(cfg, rels) ==
    LET ca_cert == DecodeCaCert(cfg.juju_ca_cert) IN
    IF ~ca_cert.ok
    THEN [ok |-> FALSE, config |-> <<>>]
    ELSE [ok |-> TRUE,
          config |->
            [settings |-> [collection_path |-> cfg.collection_path,
                           customer |-> cfg.customer, site |-> cfg.site],
             juju_controller |-> [endpoint |-> cfg.juju_endpoint,
                                  username |-> cfg.juju_username,
                                  password |-> cfg.juju_password,
                                  ca_cert |-> ca_cert.text],
             targets |-> Targets(rels, cfg.customer, cfg.site)]]

\* yaml.safe_dump(config, conf_file): one section per top-level key, keys
\* sorted.
SafeDump(c) ==
    <<[key |-> "juju_controller", value |-> c.juju_controller],
      [key |-> "settings", value |-> c.settings],
      [key |-> "targets", value |-> c.targets]>>

Complete(f) == f.exists /\ Len(f.data) = NumSections

\* ---------------------------------------------------------- run_collector
Exit(c) ==
    CASE c = "ok" -> "zero"
      [] c = "failing" -> "nonzero"
      [] OTHER -> "launch_failed"

\* run_collector never appending --dry-run to the command.
RunCollectorWithoutFlag(dry_run) ==
    LET exit == Exit(collector) IN
    [dry_run |-> FALSE, exit |-> exit,
     returned |-> CASE exit = "zero" -> "True"
                    [] exit = "nonzero" -> "False"
                    [] OTHER -> "raised"]

\* The command line carries --dry-run exactly when dry_run is set.
\* subprocess.check_output(cmd): CalledProcessError gives False, a normal
\* return gives True, and any other exception leaves run_collector.
RunCollector(dry_run) ==
    LET exit == Exit(collector) IN
    [dry_run |-> dry_run, exit |-> exit,
     returned |-> CASE exit = "zero" -> "True"
                    [] exit = "nonzero" -> "False"
                    [] OTHER -> "raised"]

\* ------------------------------------------------------------- snap_path
\* The property getter: the value returned (or the exception) and the two
\* fields afterwards, for what the resource lookup finds.
\* snap_path without the size check: the path of an empty resource file is
\* returned.
SnapPathIgnoringSize(path, cached, found) ==
    IF cached
    THEN [value |-> path, raises |-> FALSE, path |-> path, cached |-> TRUE]
    ELSE CASE found \in {"present", "empty", "unreadable"} ->
                [value |-> ResourcePath, raises |-> FALSE,
                 path |-> ResourcePath, cached |-> TRUE]
           [] found = "absent" ->
                [value |-> None, raises |-> FALSE, path |-> None, cached |-> TRUE]
           [] OTHER ->
                [value |-> None, raises |-> TRUE, path |-> path, cached |-> TRUE]

SnapPath(path, cached, found) ==
    IF cached
    THEN [value |-> path, raises |-> FALSE, path |-> path, cached |-> TRUE]
    ELSE CASE found = "present" ->
                [value |-> ResourcePath, raises |-> FALSE,
                 path |-> ResourcePath, cached |-> TRUE]
           [] found = "empty" ->
                [value |-> None, raises |-> FALSE, path |-> None, cached |-> TRUE]
           [] found = "absent" ->
                [value |-> None, raises |-> FALSE, path |-> None, cached |-> TRUE]
           [] found = "unreadable" ->
                [value |-> None, raises |-> TRUE,
                 path |-> ResourcePath, cached |-> TRUE]
           [] OTHER ->
                [value |-> None, raises |-> TRUE, path |-> path, cached |-> TRUE]

\* ------------------------------------------------------------------ state
Init ==
    /\ config = ConfigOf("acme", CertValid)
    /\ relations = <<>>
    /\ collector = "missing"
    /\ disk = DiskOk
    /\ file = NoFile
    /\ health = "Unset"
    /\ snap_path = None
    /\ is_snap_path_cached = FALSE
    /\ pc = "idle"
    /\ handler = "none"
    /\ doc = <<>>
    /\ calls = <<>>
    /\ raised = "none"
    /\ response = "none"
    /\ installed_via = "none"
    /\ before = NoSnapshot
    /\ in_row = FALSE
    /\ fetched = "none"
    /\ fresh = FALSE

\* ------------------------------------------------- the unit's environment
SetConfig(c) ==
    /\ pc = "idle"
    /\ c # config
    /\ config' = c
    /\ in_row' = FALSE
    /\ UNCHANGED <<relations, collector, disk, file, health, snap_path,
                   is_snap_path_cached, pc, handler, doc, calls, raised,
                   response, installed_via, before, fetched, fresh>>

\* A remote unit joins relation r, or relates as the first unit of a new
\* relation.
UnitJoined(r, d) ==
    /\ pc = "idle"
    /\ r \in 1..(Len(relations) + 1)
    /\ SumLen(relations) < MaxUnits
    /\ relations' =
         IF r \in DOMAIN relations
         THEN [relations EXCEPT ![r] = Append(@, d)]
         ELSE Append(relations, <<d>>)
    /\ in_row' = FALSE
    /\ UNCHANGED <<config, collector, disk, file, health, snap_path,
                   is_snap_path_cached, pc, handler, doc, calls, raised,
                   response, installed_via, before, fetched, fresh>>

\* A remote unit departs; the relation goes with its last unit.
UnitDeparted(r, i) ==
    /\ pc = "idle"
    /\ r \in DOMAIN relations
    /\ i \in DOMAIN relations[r]
    /\ relations' =
         IF Len(relations[r]) = 1
         THEN SubSeq(relations, 1, r - 1) \o SubSeq(relations, r + 1, Len(relations))
         ELSE [relations EXCEPT
                 ![r] = SubSeq(@, 1, i - 1) \o SubSeq(@, i + 1, Len(@))]
    /\ in_row' = FALSE
    /\ UNCHANGED <<config, collector, disk, file, health, snap_path,
                   is_snap_path_cached, pc, handler, doc, calls, raised,
                   response, installed_via, before, fetched, fresh>>

SetCollector(c) ==
    /\ pc = "idle"
    /\ c # collector
    /\ collector' = c
    /\ in_row' = FALSE
    /\ UNCHANGED <<config, relations, disk, file, health, snap_path,
                   is_snap_path_cached, pc, handler, doc, calls, raised,
                   response, installed_via, before, fetched, fresh>>

SetDisk(d) ==
    /\ pc = "idle"
    /\ d # disk
    /\ disk' = d
    /\ in_row' = FALSE
    /\ UNCHANGED <<config, relations, collector, file, health, snap_path,
                   is_snap_path_cached, pc, handler, doc, calls, raised,
                   response, installed_via, before, fetched, fresh>>

\* ---------------------------------------------------------------- __init__
\* main() builds the charm and emits one event on it: the handler starts
\* with the fields __init__ sets.
Dispatch(h) ==
    /\ pc = "idle"
    /\ handler' = h
    /\ before' = [health |-> health, file |-> file, in_row |-> in_row]
    /\ in_row' = FALSE

\* _on_install setting the unit active itself before anything is probed.
OnInstallActive(found, snap_ok) ==
    /\ Dispatch("install")
    /\ health' = "Ready"
    /\ LET got == SnapPath(None, FALSE, found) IN
       /\ snap_path' = got.path
       /\ is_snap_path_cached' = got.cached
       /\ IF got.raises
          THEN /\ raised' = "ResourceError"
               /\ installed_via' = "none"
               /\ pc' = "done"
               /\ UNCHANGED collector
          ELSE /\ installed_via' =
                    IF got.value # None THEN "install_local" ELSE "ensure"
               /\ IF snap_ok
                  THEN /\ raised' = "none"
                       /\ pc' = "assess"
                       /\ IF collector = "missing"
                          THEN collector' \in {"ok", "failing"}
                          ELSE UNCHANGED collector
                  ELSE /\ raised' = "SnapError"
                       /\ pc' = "done"
                       /\ UNCHANGED collector
    /\ fetched' = found
    /\ UNCHANGED <<config, relations, disk, file, doc, calls, response,
                   fresh>>

\* _on_install calling render_config before assess_status, as the other
\* lifecycle handlers do.
OnInstallRendering(found, snap_ok) ==
    /\ Dispatch("install")
    /\ LET got == SnapPath(None, FALSE, found)
           built == Synthesize(config, relations)
       IN
       /\ snap_path' = got.path
       /\ is_snap_path_cached' = got.cached
       /\ IF got.raises
          THEN /\ raised' = "ResourceError"
               /\ installed_via' = "none"
               /\ pc' = "done"
               /\ UNCHANGED <<collector, doc>>
          ELSE /\ installed_via' =
                    IF got.value # None THEN "install_local" ELSE "ensure"
               /\ IF snap_ok
                  THEN /\ raised' = IF built.ok THEN "none" ELSE "InputError"
                       /\ pc' = IF built.ok THEN "open" ELSE "done"
                       /\ doc' = IF built.ok THEN SafeDump(built.config) ELSE <<>>
                       /\ IF collector = "missing"
                          THEN collector' \in {"ok", "failing"}
                          ELSE UNCHANGED collector
                  ELSE /\ raised' = "SnapError"
                       /\ pc' = "done"
                       /\ UNCHANGED <<collector, doc>>
    /\ fetched' = found
    /\ UNCHANGED <<config, relations, disk, file, health, calls, response,
                   fresh>>

\* ------------------------------------------------------------- _on_install
\* snap_path, then snap.install_local or snap.ensure, then assess_status.
\* found is what the resource lookup finds, snap_ok whether the snap
\* library call returns.
OnInstall(found, snap_ok) ==
    /\ Dispatch("install")
    /\ LET got == SnapPath(None, FALSE, found) IN
       /\ snap_path' = got.path
       /\ is_snap_path_cached' = got.cached
       /\ IF got.raises
          THEN /\ raised' = "ResourceError"
               /\ installed_via' = "none"
               /\ pc' = "done"
               /\ UNCHANGED collector
          ELSE /\ installed_via' =
                    IF got.value # None THEN "install_local" ELSE "ensure"
               /\ IF snap_ok
                  THEN /\ raised' = "none"
                       /\ pc' = "assess"
                       /\ IF collector = "missing"
                          THEN collector' \in {"ok", "failing"}
                          ELSE UNCHANGED collector
                  ELSE /\ raised' = "SnapError"
                       /\ pc' = "done"
                       /\ UNCHANGED collector
    /\ fetched' = found
    /\ UNCHANGED <<config, relations, disk, file, health, doc, calls, response,
                   fresh>>

\* ----------------------------------------------------------- render_config
\* render_config opening the file before it builds the dictionary: a
\* certificate that does not decode leaves the file truncated.
RenderConfigTruncatingFirst ==
    LET built == Synthesize(config, relations) IN
    IF built.ok
    THEN /\ doc' = SafeDump(built.config)
         /\ raised' = "none"
         /\ pc' = "open"
         /\ UNCHANGED <<file, fresh>>
    ELSE /\ doc' = <<>>
         /\ raised' = "InputError"
         /\ pc' = "done"
         /\ file' = IF disk.writable THEN [exists |-> TRUE, data |-> <<>>] ELSE file
         /\ fresh' = (fresh /\ ~disk.writable)

\* Lines 126-155: build the dictionary; the certificate is decoded first.
RenderConfig ==
    LET built == Synthesize(config, relations) IN
    IF built.ok
    THEN /\ doc' = SafeDump(built.config)
         /\ raised' = "none"
         /\ pc' = "open"
         /\ UNCHANGED <<file, fresh>>
    ELSE /\ doc' = <<>>
         /\ raised' = "InputError"
         /\ pc' = "done"
         /\ UNCHANGED <<file, fresh>>

\* _on_config_changed catching the exception of render_config and
\* reporting it as a blocked unit.
OnConfigChangedSwallowing ==
    /\ Dispatch("reconcile")
    /\ IF Synthesize(config, relations).ok
       THEN RenderConfig /\ UNCHANGED health
       ELSE /\ doc' = <<>>
            /\ raised' = "none"
            /\ pc' = "done"
            /\ health' = "Blocked"
            /\ UNCHANGED <<file, fresh>>
    /\ snap_path' = None
    /\ is_snap_path_cached' = FALSE
    /\ UNCHANGED <<config, relations, collector, disk, calls, response,
                   installed_via, fetched>>

OnConfigChanged ==
    /\ Dispatch("reconcile")
    /\ RenderConfig
    /\ snap_path' = None
    /\ is_snap_path_cached' = FALSE
    /\ UNCHANGED <<config, relations, collector, disk, health, calls, response,
                   installed_via, fetched>>

OnInventoryExporterRelationChanged ==
    /\ Dispatch("reconcile")
    /\ RenderConfig
    /\ snap_path' = None
    /\ is_snap_path_cached' = FALSE
    /\ UNCHANGED <<config, relations, collector, disk, health, calls, response,
                   installed_via, fetched>>

\* open(self.CONFIG_PATH, "w"): the file is created or truncated.
OpenConfig ==
    /\ pc = "open"
    /\ IF disk.writable
       THEN /\ file' = [exists |-> TRUE, data |-> <<>>]
            /\ fresh' = FALSE
            /\ pc' = "dump"
            /\ UNCHANGED raised
       ELSE /\ raised' = "PersistenceError"
            /\ pc' = "done"
            /\ UNCHANGED <<file, fresh>>
    /\ UNCHANGED <<config, relations, collector, disk, health, snap_path,
                   is_snap_path_cached, handler, doc, calls, response,
                   installed_via, before, in_row, fetched>>

\* yaml.safe_dump(config, conf_file) and the close at the end of the with
\* block: the next section reaches the file, or the device is full.
DumpConfig ==
    /\ pc = "dump"
    /\ LET n == Len(file.data) IN
       IF n >= disk.room
       THEN /\ raised' = "PersistenceError"
            /\ pc' = "done"
            /\ UNCHANGED <<file, fresh>>
       ELSE /\ file' = [file EXCEPT !.data = Append(@, doc[n + 1])]
            /\ fresh' = FALSE
            /\ pc' = IF n + 1 = NumSections THEN "assess" ELSE "dump"
            /\ UNCHANGED raised
    /\ UNCHANGED <<config, relations, collector, disk, health, snap_path,
                   is_snap_path_cached, handler, doc, calls, response,
                   installed_via, before, in_row, fetched>>

\* ----------------------------------------------------------- assess_status
StatusFor(collector_ok) == IF collector_ok THEN "Ready" ELSE "Blocked"

\* assess_status running the collector a second time when the first run
\* fails.
AssessStatusRetrying ==
    /\ pc = "assess"
    /\ LET call == RunCollector(TRUE) IN
       /\ calls' = IF call.returned = "False"
                   THEN Append(Append(calls, call), call)
                   ELSE Append(calls, call)
       /\ IF call.returned = "raised"
          THEN /\ raised' = "LaunchError"
               /\ UNCHANGED <<health, fresh>>
          ELSE /\ health' = StatusFor(call.returned = "True")
               /\ fresh' = (call.returned = "True")
               /\ UNCHANGED raised
    /\ pc' = "done"
    /\ UNCHANGED <<config, relations, collector, disk, file, snap_path,
                   is_snap_path_cached, handler, doc, response, installed_via,
                   before, in_row, fetched>>

AssessStatus ==
    /\ pc = "assess"
    /\ LET call == RunCollector(TRUE) IN
       /\ calls' = Append(calls, call)
       /\ IF call.returned = "raised"
          THEN /\ raised' = "LaunchError"
               /\ UNCHANGED <<health, fresh>>
          ELSE /\ health' = StatusFor(call.returned = "True")
               /\ fresh' = (call.returned = "True")
               /\ UNCHANGED raised
    /\ pc' = "done"
    /\ UNCHANGED <<config, relations, collector, disk, file, snap_path,
                   is_snap_path_cached, handler, doc, response, installed_via,
                   before, in_row, fetched>>

\* ------------------------------------------------------ _on_collect_action
\* _on_collect_action setting the unit status from the run's result, as
\* assess_status does.
OnCollectActionAssessing ==
    /\ Dispatch("collect")
    /\ LET call == RunCollector(FALSE) IN
       /\ calls' = Append(calls, call)
       /\ CASE call.returned = "True" ->
                 response' = "Completed" /\ raised' = "none" /\ health' = "Ready"
            [] call.returned = "False" ->
                 response' = "Failed" /\ raised' = "none" /\ health' = "Blocked"
            [] OTHER ->
                 response' = "none" /\ raised' = "LaunchError" /\ UNCHANGED health
    /\ pc' = "done"
    /\ snap_path' = None
    /\ is_snap_path_cached' = FALSE
    /\ UNCHANGED <<config, relations, collector, disk, file, doc, installed_via,
                   fetched, fresh>>

OnCollectAction ==
    /\ Dispatch("collect")
    /\ LET call == RunCollector(FALSE) IN
       /\ calls' = Append(calls, call)
       /\ CASE call.returned = "True" ->
                 response' = "Completed" /\ raised' = "none"
            [] call.returned = "False" ->
                 response' = "Failed" /\ raised' = "none"
            [] OTHER ->
                 response' = "none" /\ raised' = "LaunchError"
    /\ pc' = "done"
    /\ snap_path' = None
    /\ is_snap_path_cached' = FALSE
    /\ UNCHANGED <<config, relations, collector, disk, file, health, doc,
                   installed_via, fetched, fresh>>

\* The handler has returned or raised; the process that main() started ends.
Finish ==
    /\ pc = "done"
    /\ pc' = "idle"
    /\ in_row' = (handler = "reconcile")
    /\ handler' = "none"
    /\ doc' = <<>>
    /\ calls' = <<>>
    /\ raised' = "none"
    /\ response' = "none"
    /\ installed_via' = "none"
    /\ before' = NoSnapshot
    /\ snap_path' = None
    /\ is_snap_path_cached' = FALSE
    /\ fetched' = "none"
    /\ UNCHANGED <<config, relations, collector, disk, file, health, fresh>>

Next ==
    \/ \E c \in Configs : SetConfig(c)
    \/ \E r \in 1..MaxUnits, d \in UnitData : UnitJoined(r, d)
    \/ \E r \in 1..MaxUnits, i \in 1..MaxUnits : UnitDeparted(r, i)
    \/ \E c \in CollectorStates : SetCollector(c)
    \/ \E d \in DiskStates : SetDisk(d)
    \/ \E found \in ResourceOutcomes, snap_ok \in BOOLEAN : OnInstall(found, snap_ok)
    \/ OnConfigChanged
    \/ OnInventoryExporterRelationChanged
    \/ OpenConfig
    \/ DumpConfig
    \/ AssessStatus
    \/ OnCollectAction
    \/ Finish

Spec == Init /\ [][Next]_vars

\* ====================================================================
\* Properties
\* ====================================================================
AtEnd(h) == pc = "done" /\ handler = h

\* A reconcile whose render_config wrote the whole file.
Rendered == AtEnd("reconcile") /\ raised \notin {"InputError", "PersistenceError"}

FileOf(c) == [exists |-> TRUE, data |-> SafeDump(c)]

TargetsIn(f) == f.data[NumSections].value

\* The related units, relation by relation.
RECURSIVE Members(_)
Members(rels) == IF rels = <<>> THEN <<>> ELSE Head(rels) \o Members(Tail(rels))

Occurrences(seq, x) == Cardinality({k \in DOMAIN seq : seq[k] = x})

\* RFC 4648 base64: only alphabet characters, in groups of four, the last
\* group padded with one or two '='.
IsStrictBase64(s) ==
    /\ Len(s) % 4 = 0
    /\ \A k \in DOMAIN s :
         \/ IsB64Char(s[k])
         \/ s[k] = "=" /\ k >= Len(s) - 1 /\ s[Len(s)] = "="

\* C1: at the end of a config-changed or relation event whose render_config
\* wrote the file, the status is Ready exactly when the dry-run probe of
\* that event exited with status zero, whatever the status was before.
C1_StatusFollowsProbe ==
    Rendered => (health = "Ready" <=> (calls # <<>> /\ calls[1].exit = "zero"))

\* C2 as stated: when an install or upgrade event completes, the file is
\* the rendering of the current config and related units.
C2_InstallRenders ==
    (AtEnd("install") /\ raised = "none" /\ Synthesize(config, relations).ok)
        => file = FileOf(Synthesize(config, relations).config)

\* C2 amended: an install or upgrade event installs the collector and then
\* only runs the dry-run probe; it never writes the file, which stays as it
\* was when the event started.
C2_InstallOnlyProbes ==
    handler = "install" =>
        /\ file = before.file
        /\ (pc = "done" /\ raised = "none") =>
              /\ installed_via # "none"
              /\ Len(calls) = 1
              /\ calls[1].dry_run

C2_Witness ==
    /\ AtEnd("install")
    /\ raised = "none"
    /\ health = "Ready"
    /\ SumLen(relations) > 0
    /\ Synthesize(config, relations).ok
    /\ file # FileOf(Synthesize(config, relations).config)

\* C3: a collect action, whatever the run's result, leaves the unit status
\* and the file as they were, and a run that exits non-zero fails the
\* action.
C3_CollectLeavesStatus ==
    AtEnd("collect") =>
        /\ health = before.health
        /\ file = before.file
        /\ calls[1].exit = "nonzero" => response = "Failed"

C3_Witness ==
    /\ AtEnd("collect")
    /\ calls[1].exit = "nonzero"
    /\ ~calls[1].dry_run
    /\ response = "Failed"
    /\ before.health = "Ready"
    /\ health = "Ready"

\* C4: run_collector returns False for every run that does not exit with
\* status zero, a failure to launch the executable included, with and
\* without --dry-run.
C4_InvokerReturnsFalse ==
    \A k \in DOMAIN calls :
        calls[k].exit # "zero" => calls[k].returned = "False"

\* C5: whoever reads the file never finds it empty or cut short: once it
\* exists it holds a whole document.
C5_FileAlwaysWhole == file.exists => Complete(file)

\* C6: a reconcile that directly follows a reconcile, with config, related
\* units, collector and disk unchanged in between, ends with the status and
\* the file the earlier one ended with.
C6_ReconcileIdempotent ==
    (AtEnd("reconcile") /\ before.in_row) =>
        /\ health = before.health
        /\ file = before.file

C6_Witness ==
    /\ AtEnd("reconcile")
    /\ before.in_row
    /\ raised = "none"
    /\ health = "Ready"
    /\ Complete(file)
    /\ Len(TargetsIn(file)) > 0

\* C7 as stated: a certificate that is not valid base64, or that cannot be
\* decoded, makes the reconcile raise and leaves the file as it was.
C7_InvalidCertRaises ==
    (/\ AtEnd("reconcile")
     /\ \/ ~IsStrictBase64(config.juju_ca_cert)
        \/ ~DecodeCaCert(config.juju_ca_cert).ok)
        => (raised # "none" /\ file = before.file)

\* C7 amended: a certificate whose decoding fails (after the characters
\* outside the base64 alphabet are skipped the data is cut short or wrongly
\* padded, or the bytes are not UTF-8) makes the reconcile raise and leaves
\* the file as it was.
C7_UndecodableCertRaises ==
    (AtEnd("reconcile") /\ ~DecodeCaCert(config.juju_ca_cert).ok)
        => (raised = "InputError" /\ file = before.file)

C7_Witness ==
    /\ AtEnd("reconcile")
    /\ ~DecodeCaCert(config.juju_ca_cert).ok
    /\ raised = "InputError"
    /\ Complete(file)
    /\ TargetsIn(file) # Targets(relations, config.customer, config.site)

\* C8: when render_config raises while it builds the dictionary, the
\* handler ends with that exception: the collector is not run and the status
\* is the one from before the event.
C8_SynthesisErrorPropagates ==
    (AtEnd("reconcile") /\ ~Synthesize(config, relations).ok) =>
        /\ raised = "InputError"
        /\ calls = <<>>
        /\ health = before.health

C8_Witness ==
    /\ AtEnd("reconcile")
    /\ ~Synthesize(config, relations).ok
    /\ raised = "InputError"
    /\ calls = <<>>
    /\ collector = "failing"
    /\ health = "Ready"

\* C9: a collect action ends with exactly one of the two responses,
\* completed or failed, for every outcome of the run.
C9_CollectAlwaysResponds ==
    AtEnd("collect") => response \in {"Completed", "Failed"}

\* C10: at the end of a reconcile that wrote the file, the file's targets
\* are the related units of that moment, each as often as it is related: no
\* target of a departed unit is left and none is missing.
C10_TargetsAreMembership ==
    Rendered =>
        /\ Complete(file)
        /\ Len(TargetsIn(file)) = SumLen(relations)
        /\ \A d \in UnitData :
             Occurrences(TargetsIn(file), TargetOf(d, config.customer, config.site))
                 = Occurrences(Members(relations), d)

C10_Witness ==
    /\ Rendered
    /\ Complete(before.file)
    /\ Len(TargetsIn(file)) = 1
    /\ Len(TargetsIn(before.file)) = MaxUnits
    /\ TargetsIn(file)[1] # TargetsIn(before.file)[1]

\* C11: the file's targets follow the related units one for one, relation
\* by relation and unit by unit in the order the model yields them; units
\* with the same endpoint each keep their target.
C11_TargetsInProviderOrder ==
    Rendered =>
        /\ Complete(file)
        /\ Len(TargetsIn(file)) = Len(Members(relations))
        /\ \A k \in DOMAIN Members(relations) :
             TargetsIn(file)[k]
                 = TargetOf(Members(relations)[k], config.customer, config.site)

C11_Witness ==
    /\ Rendered
    /\ Complete(file)
    /\ Len(TargetsIn(file)) = 2
    /\ TargetsIn(file)[1].endpoint = TargetsIn(file)[2].endpoint
    /\ Len(relations) = 2

\* The value under a top-level key of a whole file.
Section(f, key) == f.data[CHOOSE k \in DOMAIN f.data : f.data[k].key = key].value

KeysOf(f) == {f.data[k].key : k \in DOMAIN f.data}

\* The text "CERT" as code points.
TextCERT == <<67, 69, 82, 84>>

\* The related unit of the scenario.
ScenarioUnit ==
    [address |-> "10.0.0.2", port |-> "9100", hostname |-> "h1", model |-> "m1"]

\* C12 as stated: a whole file has the top-level sections settings,
\* controller and targets, with the decoded certificate under controller.
C12_SectionsAsStated ==
    Complete(file) =>
        /\ KeysOf(file) = {"settings", "controller", "targets"}
        /\ \E k \in DOMAIN file.data :
             /\ file.data[k].key = "controller"
             /\ DOMAIN file.data[k].value
                    = {"endpoint", "username", "password", "ca_cert"}

\* C12 amended: a whole file has the top-level sections settings,
\* juju_controller and targets; juju_controller holds endpoint, username,
\* password and ca_cert; every target's endpoint is address, colon, port;
\* and for the scenario's config and first unit the file written has
\* juju_controller.ca_cert = "CERT" and targets[0].endpoint =
\* "10.0.0.2:9100".
C12_ArtifactLayout ==
    Complete(file) =>
        /\ KeysOf(file) = {"settings", "juju_controller", "targets"}
        /\ DOMAIN Section(file, "juju_controller")
               = {"endpoint", "username", "password", "ca_cert"}
        /\ DOMAIN Section(file, "settings") = {"collection_path", "customer", "site"}
        /\ \A k \in DOMAIN Section(file, "targets") :
             Section(file, "targets")[k].endpoint \in {"10.0.0.2:9100", "None:None"}
        /\ (/\ Rendered
            /\ config = ConfigOf("acme", CertValid)
            /\ Members(relations) # <<>>
            /\ Members(relations)[1] = ScenarioUnit)
              => /\ Section(file, "juju_controller").ca_cert = TextCERT
                 /\ Section(file, "targets")[1].endpoint = "10.0.0.2:9100"

C12_Witness ==
    /\ Rendered
    /\ config = ConfigOf("acme", CertValid)
    /\ Members(relations) = <<ScenarioUnit>>
    /\ Complete(file)
    /\ Section(file, "juju_controller").ca_cert = TextCERT
    /\ Section(file, "targets")[1].endpoint = "10.0.0.2:9100"

\* C13: a reconcile that ends with a failure to write the file has not run
\* the collector and leaves the file it found: nothing empty or cut short
\* stays behind.
C13_FailedWriteLeavesPrevious ==
    (AtEnd("reconcile") /\ raised = "PersistenceError") =>
        /\ calls = <<>>
        /\ file = before.file

\* C14: the unit status starts out other than Ready, and every step that
\* changes it is assess_status acting on a dry-run call of the collector
\* that returned in the same handler: Ready for True, Blocked for False.
C14_StatusOnlyFromProbe ==
    /\ health # "Ready"
    /\ [][health' # health =>
            /\ pc = "assess"
            /\ handler' = handler
            /\ Len(calls') = Len(calls) + 1
            /\ calls'[Len(calls')].dry_run
            /\ calls'[Len(calls')].returned # "raised"
            /\ health' = IF calls'[Len(calls')].returned = "True"
                         THEN "Ready" ELSE "Blocked"]_vars

C14_Witness ==
    /\ AtEnd("reconcile")
    /\ before.health = "Ready"
    /\ health = "Blocked"
    /\ Len(calls) = 1
    /\ calls[1].dry_run
    /\ calls[1].returned = "False"

\* C15: the collector is run with --dry-run in the install, upgrade,
\* config-changed and relation handlers, and without it in the collect
\* action: no lifecycle handler starts a real collection.
C15_ProbeFlagByHandler ==
    \A k \in DOMAIN calls :
        /\ handler \in {"install", "reconcile", "collect"}
        /\ calls[k].dry_run <=> handler \in {"install", "reconcile"}

C15_Witness ==
    /\ AtEnd("install")
    /\ Len(calls) = 1
    /\ calls[1].dry_run
    /\ calls[1].exit = "zero"

\* C16: a handler runs the collector at most once, as its last step, and
\* a dry-run that returned False leaves the unit Blocked with no further
\* run in that handler; between handlers no run is in progress.
C16_NoRetry ==
    /\ Len(calls) <= 1
    /\ pc # "done" => calls = <<>>
    /\ (/\ pc = "done"
        /\ calls # <<>>
        /\ calls[1].dry_run
        /\ calls[1].returned = "False") => health = "Blocked"

C16_Witness ==
    /\ AtEnd("install")
    /\ Len(calls) = 1
    /\ calls[1].dry_run
    /\ calls[1].returned = "False"
    /\ health = "Blocked"

\* C17: in _on_install the local-file install is made exactly when the
\* resource is attached and its file is not empty; an absent or an empty
\* resource leads to snap.ensure; never both calls; and when neither the
\* lookup nor the snap call raised, the handler ends with one dry run of
\* the collector, which is not run when one of them raised.
C17_InstallPath ==
    (handler = "install" /\ pc \in {"assess", "done"}) =>
        /\ installed_via \in {"install_local", "ensure", "none"}
        /\ installed_via = "install_local" <=> fetched = "present"
        /\ fetched \in {"absent", "empty"} => installed_via = "ensure"
        /\ installed_via = "none" <=> raised = "ResourceError"
        /\ raised \in {"ResourceError", "SnapError"} => calls = <<>>
        /\ (pc = "done" /\ raised \notin {"ResourceError", "SnapError"}) =>
              Len(calls) = 1 /\ calls[1].dry_run

C17_Witness ==
    /\ AtEnd("install")
    /\ fetched = "empty"
    /\ installed_via = "ensure"
    /\ raised = "none"
    /\ Len(calls) = 1
    /\ calls[1].dry_run

\* C18: at the end of every event and between events, a unit that is
\* Ready has a file that was not modified after the last dry run that
\* exited zero.
C18_ReadyMeansProbedFile ==
    (pc \in {"idle", "done"} /\ health = "Ready") => fresh

\* C19: whatever a further access to snap_path in the same process returns
\* is a path only if the lookup found a resource whose file is not empty.
C19_CachedPathIsVerified ==
    is_snap_path_cached =>
        (SnapPath(snap_path, is_snap_path_cached, fetched).value # None
            => fetched = "present")

====
